---- MODULE Spec2Model ----
(***************************************************************************)
(* XGBDistribution (src/src/xgb_dist/model.py): a scikit-learn style       *)
(* estimator that boosts the K parameters of a distribution with xgboost.  *)
(*                                                                         *)
(* The estimator is modelled as a state machine over its attributes        *)
(* (distribution, natural_gradient, the boosting kwargs, _distribution,    *)
(* _starting_params, _Booster).  The blocking call of xgb.train is an      *)
(* in-flight call (train_call) that returns or raises later; while it is   *)
(* in flight the engine invokes the objective and evaluation closures.     *)
(* Scalars are integers: a float that is only copied or compared is        *)
(* modelled by an integer value, the numeric code of the distribution      *)
(* family (package xgb_dist.distributions) by fixed-point arithmetic       *)
(* following section 4.2 of the specification.                             *)
(***************************************************************************)
EXTENDS Integers, Sequences, FiniteSets, TLC

VARIABLES
    distribution,      \* self.distribution   (model.py:19)
    natural_gradient,  \* self.natural_gradient (model.py:20)
    kwargs,            \* boosting hyperparameters given to the constructor (model.py:21)
    _distribution,     \* self._distribution  (model.py:25, 84)
    _starting_params,  \* self._starting_params (model.py:34)
    _Booster,          \* self._Booster       (model.py:62)
    train_call,        \* the xgb.train call in flight (model.py:62-71), None when there is none
    prov,              \* history: do _distribution / _starting_params date from the call that stored _Booster
    ev                 \* history: what the last operation did and returned

vars == <<distribution, natural_gradient, kwargs, _distribution, _starting_params,
          _Booster, train_call, prov, ev>>

estimator == <<distribution, natural_gradient, kwargs, _distribution, _starting_params, _Booster>>

----------------------------------------------------------------------------
(* Bounds of the model *)

\* longest label sequence y (and longest evaluation label sequence)
MaxLabels == 2
\* most (data, labels) pairs in eval_set
MaxEval == 2
\* most rows of X in a predict call
MaxRows == 2
\* largest tree contribution the engine adds to a margin
MaxTree == 1

\* Python's None, and a value that is not None
None == <<>>
Some(x) == <<x>>
Val(o) == o[1]
\* hasattr(self, a) is false; an attribute that is set holds Some(value)
NoAttr == <<>>

\* label values: a non-positive one and two positive ones
LabelValues == {0, 1, 2}

Labels == UNION {[1..n -> LabelValues] : n \in 0..MaxLabels}

\* labels of an evaluation pair: fit reads only their number (model.py:39)
EvalLabels == {[i \in 1..n |-> 2] : n \in 0..MaxLabels}

EvalSets == {None} \cup {Some(es) : es \in UNION {[1..m -> EvalLabels] : m \in 0..MaxEval}}

\* eval_set absent or of one pair
EvalSets1 == {None} \cup {Some(<<e>>) : e \in EvalLabels}

\* names a caller may give as `distribution`
Names == {"normal", "LogNormal", "exponential", "not_a_real_one"}

\* boosting hyperparameters a caller may give: none, or ones that collide with
\* the keys fit sets
KwargsSet ==
    { [base_score |-> None, num_class |-> None, disable_default_eval_metric |-> None],
      [base_score |-> Some(5), num_class |-> Some(3),
       disable_default_eval_metric |-> Some(FALSE)] }

----------------------------------------------------------------------------
(* Arithmetic helpers *)

RECURSIVE SumSeq(_)
SumSeq(s) == IF s = <<>> THEN 0 ELSE Head(s) + SumSeq(Tail(s))

Range(s) == {s[i] : i \in DOMAIN s}

MaxOf(S) == CHOOSE x \in S : \A z \in S : z <= x
MinOf(S) == CHOOSE x \in S : \A z \in S : x <= z

\* floor(log2(x)) for x >= 1: the model's logarithm
RECURSIVE ILog(_)
ILog(x) == IF x <= 1 THEN 0 ELSE 1 + ILog(x \div 2)

\* 2^x for x >= 0: the model's exponential
RECURSIVE IExp(_)
IExp(x) == IF x <= 0 THEN 1 ELSE 2 * IExp(x - 1)

\* fixed-point quotient x / d in units of 1/64
Fix(x, d) == (64 * x) \div d

----------------------------------------------------------------------------
(* xgb_dist.distributions: the registry and the distribution family *)

\* the registered variants, by canonical name
Registry == {"normal", "lognormal", "exponential"}

\* lower-casing of the names in Names
Lower(name) == IF name = "LogNormal" THEN "lognormal" ELSE name

\* get_distribution(name): case-insensitive lookup; fails when unregistered
get_distribution(name) ==
    IF Lower(name) \in Registry
    THEN [ok |-> TRUE, value |-> Lower(name)]
    ELSE [ok |-> FALSE, value |-> "UnknownDistributionError"]

\* Distribution.params: the ordered parameter names; K is their number
DistParams(d) ==
    CASE d = "normal"      -> <<"loc", "scale">>
      [] d = "lognormal"   -> <<"scale", "s">>
      [] d = "exponential" -> <<"scale">>

NParams(d) == Len(DistParams(d))

\* normal: [mean(y), log(std(y))]; undefined on empty or zero-spread labels
NormalStart(y) ==
    IF y = <<>> \/ MaxOf(Range(y)) = MinOf(Range(y))
    THEN [ok |-> FALSE, value |-> "InvalidInputError"]
    ELSE [ok |-> TRUE,
          value |-> <<SumSeq(y) \div Len(y), ILog(MaxOf(Range(y)) - MinOf(Range(y)))>>]

\* Distribution.starting_params(y): one constant per parameter, or a failure
starting_params(d, y) ==
    CASE d = "normal" -> NormalStart(y)
      [] d = "lognormal" ->
            IF \E i \in DOMAIN y : y[i] <= 0
            THEN [ok |-> FALSE, value |-> "InvalidInputError"]
            ELSE NormalStart([i \in DOMAIN y |-> ILog(y[i])])
      [] d = "exponential" ->
            IF y = <<>> \/ SumSeq(y) = 0
            THEN [ok |-> FALSE, value |-> "InvalidInputError"]
            ELSE [ok |-> TRUE, value |-> <<ILog(SumSeq(y) \div Len(y) + 1)>>]

\* unpack(flat, K): the (n, K) matrix of a flat sample-major vector
unpack(flat, K) ==
    [i \in 1..(Len(flat) \div K) |-> [k \in 1..K |-> flat[(i - 1) * K + k]]]

\* the link functions of one sample's raw parameters
Link(d, row) ==
    CASE d = "normal"      -> <<row[1], IExp(row[2])>>
      [] d = "lognormal"   -> <<IExp(row[1]), IExp(row[2])>>
      [] d = "exponential" -> <<IExp(row[1])>>

\* Distribution.predict(raw_params): K per-sample vectors in natural parameters
dist_predict(d, flat) ==
    LET M == unpack(flat, NParams(d))
    IN  [k \in 1..NParams(d) |-> [i \in 1..Len(M) |-> Link(d, M[i])[k]]]

\* the label as the distribution sees it
Target(d, yi) == IF d = "lognormal" THEN ILog(yi) ELSE yi

\* one sample's plain gradient of the negative log-likelihood (units of 1/64)
PlainGrad(d, yi, row) ==
    IF d = "exponential"
    THEN <<64 - Fix(yi, IExp(row[1]))>>
    ELSE LET e == row[1] - Target(d, yi)
             var == IExp(2 * row[2])
         IN  <<Fix(e, var), 64 - Fix(e * e, var)>>

\* the same gradient rescaled by the inverse Fisher information
NaturalGrad(d, yi, row) ==
    IF d = "exponential"
    THEN PlainGrad(d, yi, row)
    ELSE LET e == row[1] - Target(d, yi)
             var == IExp(2 * row[2])
         IN  <<64 * e, (64 - Fix(e * e, var)) \div 2>>

\* one sample's Hessian diagonal, floored at one unit
Hess(d, yi, row) ==
    LET floor(h) == IF h < 1 THEN 1 ELSE h
    IN  IF d = "exponential"
        THEN <<floor(Fix(yi, IExp(row[1])))>>
        ELSE LET e == row[1] - Target(d, yi)
                 var == IExp(2 * row[2])
             IN  <<floor(Fix(1, var)), floor(2 * Fix(e * e, var))>>

\* Distribution.gradient_and_hessian(y, raw_params, natural): two (n, K) matrices
gradient_and_hessian(d, y, flat, natural) ==
    LET M == unpack(flat, NParams(d))
    IN  [grad |-> [i \in 1..Len(y) |->
                      IF natural THEN NaturalGrad(d, y[i], M[i]) ELSE PlainGrad(d, y[i], M[i])],
         hess |-> [i \in 1..Len(y) |-> Hess(d, y[i], M[i])]]

\* one sample's negative log-likelihood (units of 1/64)
Nll(d, yi, row) ==
    IF d = "exponential"
    THEN 64 * row[1] + Fix(yi, IExp(row[1]))
    ELSE LET e == row[1] - Target(d, yi)
         IN  64 * row[2] + Fix(e * e, 2 * IExp(2 * row[2]))

\* Distribution.loss(y, raw_params): the named mean negative log-likelihood
loss(d, y, flat) ==
    LET M == unpack(flat, NParams(d))
    IN  [name |-> "NLL-score",
         value |-> SumSeq([i \in 1..Len(y) |-> Nll(d, y[i], M[i])]) \div Len(y)]

----------------------------------------------------------------------------
(* model.py: pure parts *)

\* np.ndarray.transpose of an (r, c) matrix
Transpose(M, r, c) == [j \in 1..c |-> [i \in 1..r |-> M[i][j]]]

\* np.ndarray.flatten of an (r, c) matrix: row-major
Flatten(M, r, c) == [j \in 1..(r * c) |-> M[((j - 1) \div c) + 1][((j - 1) % c) + 1]]

\* slip: the rows are flattened without the transpose (parameter-major)
_get_base_margins_param_major(sp, n_samples) ==
    LET K == Len(sp)
        rows == [k \in 1..K |-> [i \in 1..n_samples |-> sp[k] * 1]]
    IN  IF K = 0 THEN <<>> ELSE Flatten(rows, K, n_samples)

\* _get_base_margins(n_samples) on self._starting_params = sp:
\* one row param * ones(n) per starting parameter, transposed, flattened
_get_base_margins(sp, n_samples) ==
    LET K == Len(sp)
        rows == [k \in 1..K |-> [i \in 1..n_samples |-> sp[k] * 1]]
    IN  IF K = 0 THEN <<>> ELSE Flatten(Transpose(rows, K, n_samples), n_samples, K)

\* XGBModel.get_xgb_params(): the hyperparameters as the caller gave them
get_xgb_params(kw) == kw

\* slip: the caller's base_score and num_class win over the ones fit sets
fit_params_setdefault(kw, d) ==
    [get_xgb_params(kw) EXCEPT !.disable_default_eval_metric = Some(TRUE),
                               !.num_class = IF @ = None THEN Some(NParams(d)) ELSE @,
                               !.base_score = IF @ = None THEN Some(0) ELSE @]

\* fit: the parameter set handed to xgb.train
fit_params(kw, d) ==
    [get_xgb_params(kw) EXCEPT !.disable_default_eval_metric = Some(TRUE),
                               !.num_class = Some(NParams(d)),
                               !.base_score = Some(0)]

\* slip: every evaluation margin is built for the number of training labels
fit_base_margin_eval_set_train_n(sp, y, eval_set) ==
    IF eval_set # None
    THEN Some([j \in 1..Len(Val(eval_set)) |-> _get_base_margins(sp, Len(y))])
    ELSE None

\* fit: the base margins of the evaluation pairs
fit_base_margin_eval_set(sp, y, eval_set) ==
    IF eval_set # None
    THEN Some([j \in 1..Len(Val(eval_set)) |->
                  _get_base_margins(sp, Len(Val(eval_set)[j]))])
    ELSE None

AllAttrs == {"_distribution", "_starting_params", "_Booster"}

\* slip: xgb.train is entered before starting_params has checked the labels;
\* the labels' error surfaces only afterwards
fit_run_train_first(name, kw, y, eval_set, data_ok) ==
    LET r == get_distribution(name)
    IN  IF ~r.ok
        THEN [outcome |-> r.value, dist |-> None, sp |-> None, call |-> None,
              trace |-> <<"get_distribution">>]
        ELSE
          LET d == r.value
              s == starting_params(d, y)
              sp == IF s.ok THEN s.value ELSE [k \in 1..NParams(d) |-> 0]
              tr == <<"get_distribution", "_wrap_evaluation_matrices", "xgb.train",
                      "starting_params">>
          IN  [outcome |-> IF s.ok THEN "training" ELSE s.value,
               dist |-> Some(d), sp |-> IF s.ok THEN Some(sp) ELSE None,
               trace |-> tr,
               call |-> Some([params |-> fit_params(kw, d),
                              base_margin |-> _get_base_margins(sp, Len(y)),
                              base_margin_eval_set |->
                                  fit_base_margin_eval_set(sp, y, eval_set),
                              y |-> y, eval_set |-> eval_set, name |-> name,
                              dist |-> d, starting |-> sp, trace |-> tr])]

\* fit up to and including the call of xgb.train: what it writes, how it ends,
\* the calls it makes in order (trace; the last one raised when fit ends in an
\* error) and the arguments of xgb.train.
\* data_ok: _wrap_evaluation_matrices builds the matrices
fit_run(name, kw, y, eval_set, data_ok) ==
    LET r == get_distribution(name)
    IN  IF ~r.ok
        THEN [outcome |-> r.value, dist |-> None, sp |-> None, call |-> None,
              trace |-> <<"get_distribution">>]
        ELSE
          LET d == r.value
              params == fit_params(kw, d)
              s == starting_params(d, y)
          IN  IF ~s.ok
              THEN [outcome |-> s.value, dist |-> Some(d), sp |-> None, call |-> None,
                    trace |-> <<"get_distribution", "starting_params">>]
              ELSE
                LET base_margin == _get_base_margins(s.value, Len(y))
                    base_margin_eval_set == fit_base_margin_eval_set(s.value, y, eval_set)
                IN  IF ~data_ok
                    THEN [outcome |-> "EngineError", dist |-> Some(d), sp |-> Some(s.value),
                          call |-> None,
                          trace |-> <<"get_distribution", "starting_params",
                                      "_wrap_evaluation_matrices">>]
                    ELSE [outcome |-> "training", dist |-> Some(d), sp |-> Some(s.value),
                          trace |-> <<"get_distribution", "starting_params",
                                      "_wrap_evaluation_matrices", "xgb.train">>,
                          call |-> Some([params |-> params,
                                         base_margin |-> base_margin,
                                         base_margin_eval_set |-> base_margin_eval_set,
                                         y |-> y,
                                         eval_set |-> eval_set,
                                         name |-> name,
                                         dist |-> d,
                                         starting |-> s.value,
                                         trace |-> <<"get_distribution", "starting_params",
                                                     "_wrap_evaluation_matrices",
                                                     "xgb.train">>])]

\* XGBModel.predict(X, output_margin=True, base_margin=...): NotFittedError without
\* an ensemble; the engine rejects a base margin of the wrong length; otherwise
\* the raw margins are the base margins plus the trees' contribution
xgb_predict(booster, n, base_margin, tree) ==
    IF booster = NoAttr
    THEN [ok |-> FALSE, value |-> "NotFittedError", passed |-> None]
    ELSE LET call == Some([base_margin |-> base_margin, output_margin |-> TRUE, n |-> n])
         IN  IF Len(base_margin) # n * Val(booster).num_class
             THEN [ok |-> FALSE, value |-> "EngineError", passed |-> call]
             ELSE [ok |-> TRUE, passed |-> call,
                   value |-> [i \in 1..Len(base_margin) |-> base_margin[i] + tree]]

\* predict_dist(X) for X of n rows: what it writes, what it passes to the engine,
\* how it ends
predict_dist_run(name, dist, sp, booster, n, tree) ==
    LET absent == dist = NoAttr
        r == get_distribution(name)
    IN  IF absent /\ ~r.ok
        THEN [outcome |-> r.value, dist |-> None, passed |-> None, result |-> None]
        ELSE
          LET d == IF absent THEN r.value ELSE Val(dist)
              w == IF absent THEN Some(d) ELSE None
          IN  IF sp = NoAttr
              THEN [outcome |-> "AttributeError", dist |-> w, passed |-> None,
                    result |-> None]
              ELSE
                LET base_margin == _get_base_margins(Val(sp), n)
                    e == xgb_predict(booster, n, base_margin, tree)
                IN  IF ~e.ok
                    THEN [outcome |-> e.value, dist |-> w, passed |-> e.passed,
                          result |-> None]
                    ELSE [outcome |-> "returned", dist |-> w, passed |-> e.passed,
                          result |-> Some(dist_predict(d, e.value))]

\* predict(X): predict_dist(X)[0]
predict_run(name, dist, sp, booster, n, tree) ==
    LET pd == predict_dist_run(name, dist, sp, booster, n, tree)
    IN  IF pd.outcome = "returned"
        THEN [pd EXCEPT !.result = Some(Val(pd.result)[1])]
        ELSE pd

\* the estimator as the closures of _objective_func and _evaluation_func see it
Self ==
    [distribution |-> distribution, natural_gradient |-> natural_gradient,
     _distribution |-> _distribution]

\* the closure obj of _objective_func, called with predictions and a partition's labels
obj(self, params, y) ==
    LET gh == gradient_and_hessian(Val(self._distribution), y, params, self.natural_gradient)
        K == NParams(Val(self._distribution))
    IN  [grad |-> Flatten(gh.grad, Len(y), K), hess |-> Flatten(gh.hess, Len(y), K)]

\* slip: the evaluation passes the flag on and reports a rescaled loss
feval_natural(self, params, y) ==
    LET l == loss(Val(self._distribution), y, params)
    IN  IF self.natural_gradient THEN [l EXCEPT !.value = @ \div 2] ELSE l

\* the closure feval of _evaluation_func
feval(self, params, y) == loss(Val(self._distribution), y, params)

----------------------------------------------------------------------------
(* The estimator's operations *)

NoKwargs == [base_score |-> None, num_class |-> None, disable_default_eval_metric |-> None]

\* __init__(distribution=d, natural_gradient=ng, **kw)
Construct(d, ng, kw) ==
    /\ distribution = (IF d = None THEN "normal" ELSE Val(d))
    /\ natural_gradient = ng
    /\ kwargs = kw
    /\ _distribution = NoAttr
    /\ _starting_params = NoAttr
    /\ _Booster = NoAttr
    /\ train_call = None
    /\ prov = [dist |-> FALSE, sp |-> FALSE]
    /\ ev = [op |-> "init"]

NameArgs == {None} \cup {Some(n) : n \in Names}

\* fit(X, y, eval_set=eval_set) until xgb.train is entered or an error is raised
Fit(y, eval_set, data_ok) ==
    /\ train_call = None
    /\ \E run \in {fit_run(distribution, kwargs, y, eval_set, data_ok)} :
           /\ _distribution' = (IF run.dist # None THEN run.dist ELSE _distribution)
           /\ _starting_params' = (IF run.sp # None THEN run.sp ELSE _starting_params)
           /\ prov' = [dist |-> prov.dist /\ run.dist = None,
                       sp |-> prov.sp /\ run.sp = None]
           /\ train_call' = run.call
           /\ ev' = [op |-> "fit", outcome |-> run.outcome,
                     wrote |-> {a \in {"_distribution"} : run.dist # None}
                               \cup {a \in {"_starting_params"} : run.sp # None},
                     trace |-> run.trace]
    /\ UNCHANGED <<distribution, natural_gradient, kwargs, _Booster>>

\* xgb.train returns the ensemble: fit stores it and returns self
TrainReturns ==
    /\ train_call # None
    /\ LET c == Val(train_call)
       IN  /\ _Booster' = Some([num_class |-> Val(c.params.num_class),
                                starting |-> c.starting, dist |-> c.dist])
           /\ ev' = [op |-> "fit", outcome |-> "returned", wrote |-> AllAttrs,
                     trace |-> c.trace]
    /\ prov' = [dist |-> TRUE, sp |-> TRUE]
    /\ train_call' = None
    /\ UNCHANGED <<distribution, natural_gradient, kwargs, _distribution, _starting_params>>

\* xgb.train raises: the error propagates out of fit
TrainRaises ==
    /\ train_call # None
    /\ ev' = [op |-> "fit", outcome |-> "EngineError",
              wrote |-> {"_distribution", "_starting_params"},
              trace |-> Val(train_call).trace]
    /\ train_call' = None
    /\ UNCHANGED <<estimator, prov>>

\* predict_dist(X) for X of n rows
PredictDist(n, tree) ==
    /\ train_call = None
    /\ \E run \in {predict_dist_run(distribution, _distribution, _starting_params,
                                   _Booster, n, tree)} :
           /\ _distribution' = (IF run.dist # None THEN run.dist ELSE _distribution)
           /\ ev' = [op |-> "predict_dist", outcome |-> run.outcome, n |-> n,
                     tree |-> tree, passed |-> run.passed, result |-> run.result]
    /\ UNCHANGED <<distribution, natural_gradient, kwargs, _starting_params, _Booster,
                   train_call, prov>>

\* predict(X) for X of n rows
Predict(n, tree) ==
    /\ train_call = None
    /\ \E run \in {predict_run(distribution, _distribution, _starting_params,
                              _Booster, n, tree)} :
           /\ _distribution' = (IF run.dist # None THEN run.dist ELSE _distribution)
           /\ ev' = [op |-> "predict", outcome |-> run.outcome, n |-> n,
                     tree |-> tree, passed |-> run.passed, result |-> run.result]
    /\ UNCHANGED <<distribution, natural_gradient, kwargs, _starting_params, _Booster,
                   train_call, prov>>

\* the attribute distribution is reassigned (set_params)
SetDistribution(d) ==
    /\ distribution # d
    /\ distribution' = d
    /\ UNCHANGED <<natural_gradient, kwargs, _distribution, _starting_params, _Booster,
                   train_call, prov, ev>>

\* the attribute natural_gradient is reassigned (set_params), possibly while
\* xgb.train is running
SetNaturalGradient(b) ==
    /\ natural_gradient # b
    /\ natural_gradient' = b
    /\ UNCHANGED <<distribution, kwargs, _distribution, _starting_params, _Booster,
                   train_call, prov, ev>>

\* the engine's predictions for a partition: its base margins plus the trees
Predictions(base_margin, tree) == [i \in 1..Len(base_margin) |-> base_margin[i] + tree]

\* the engine calls obj on the training partition
InvokeObj(tree) ==
    /\ train_call # None
    /\ LET c == Val(train_call)
           params == Predictions(c.base_margin, tree)
       IN  ev' = [op |-> "obj", params |-> params, y |-> c.y,
                  result |-> obj(Self, params, c.y)]
    /\ UNCHANGED <<estimator, train_call, prov>>

\* the engine calls feval on the j-th evaluation partition
InvokeFeval(j, tree) ==
    /\ train_call # None
    /\ LET c == Val(train_call)
       IN  /\ c.eval_set # None
           /\ j \in 1..Len(Val(c.eval_set))
           /\ Len(Val(c.eval_set)[j]) > 0
           /\ LET params == Predictions(Val(c.base_margin_eval_set)[j], tree)
                  y == Val(c.eval_set)[j]
              IN  ev' = [op |-> "feval", params |-> params, y |-> y,
                         result |-> feval(Self, params, y)]
    /\ UNCHANGED <<estimator, train_call, prov>>

\* _get_base_margins(n) called on the estimator
GetBaseMargins(n) ==
    /\ _starting_params # NoAttr
    /\ ev' = [op |-> "_get_base_margins", n |-> n,
              result |-> _get_base_margins(Val(_starting_params), n)]
    /\ UNCHANGED <<estimator, train_call, prov>>

----------------------------------------------------------------------------
(* Specifications *)

\* one estimator through fit, predict and set_params
Init == \E d \in NameArgs : Construct(d, TRUE, NoKwargs)

Next ==
    \/ \E y \in Labels, ok \in BOOLEAN : Fit(y, None, ok)
    \/ TrainReturns
    \/ TrainRaises
    \/ \E n \in 0..MaxRows, t \in 0..MaxTree : PredictDist(n, t)
    \/ \E n \in 0..MaxRows, t \in 0..MaxTree : Predict(n, t)
    \/ \E d \in Names : SetDistribution(d)

Spec == Init /\ [][Next]_vars

\* the calls of xgb.train, over all constructor and fit arguments
InitTrain == \E d \in NameArgs, kw \in KwargsSet : Construct(d, TRUE, kw)

NextTrain ==
    \/ \E y \in Labels, es \in EvalSets : Fit(y, es, TRUE)
    \/ TrainReturns
    \/ TrainRaises

SpecTrain == InitTrain /\ [][NextTrain]_vars

\* the closures while xgb.train runs
InitCallbacks == \E d \in NameArgs, ng \in BOOLEAN : Construct(d, ng, NoKwargs)

NextCallbacks ==
    \/ \E y \in Labels, es \in EvalSets1 : Fit(y, es, TRUE)
    \/ TrainReturns
    \/ TrainRaises
    \/ \E b \in BOOLEAN : SetNaturalGradient(b)
    \/ \E t \in 0..MaxTree : InvokeObj(t)
    \/ \E t \in 0..MaxTree : InvokeFeval(1, t)

SpecCallbacks == InitCallbacks /\ [][NextCallbacks]_vars

\* _get_base_margins over stored starting parameters of every length
MaxParams == 3
ParamValues == {-1, 0, 2}
StartingParams == UNION {[1..k -> ParamValues] : k \in 0..MaxParams}

InitMargins ==
    /\ distribution = "normal"
    /\ natural_gradient = TRUE
    /\ kwargs = NoKwargs
    /\ _distribution = NoAttr
    /\ _starting_params \in {Some(s) : s \in StartingParams}
    /\ _Booster = NoAttr
    /\ train_call = None
    /\ prov = [dist |-> FALSE, sp |-> FALSE]
    /\ ev = [op |-> "init"]

NextMargins == \E n \in 0..MaxRows : GetBaseMargins(n)

SpecMargins == InitMargins /\ [][NextMargins]_vars

----------------------------------------------------------------------------
(* Properties *)

Errors == {"UnknownDistributionError", "InvalidInputError", "EngineError",
           "AttributeError", "NotFittedError"}

\* the starting parameters s repeated for n samples, sample-major
Broadcast(s, n) == [j \in 1..(n * Len(s)) |-> s[((j - 1) % Len(s)) + 1]]

\* C1: a fit call either returns with the ensemble, the distribution and the
\* starting parameters all stored by that call, or raises having written none of
\* _Booster, _distribution, _starting_params.
C1_FitAllOrNothing ==
    ev.op = "fit" =>
        \/ ev.outcome = "training"
        \/ /\ ev.outcome = "returned"
           /\ ev.wrote = AllAttrs
           /\ _Booster # NoAttr /\ prov.dist /\ prov.sp
           /\ _distribution = Some(Val(_Booster).dist)
           /\ _starting_params = Some(Val(_Booster).starting)
        \/ /\ ev.outcome \in Errors
           /\ ev.wrote = {}

\* C2: predict and predict_dist on an estimator on which no fit has completed
\* fail with NotFittedError, and with nothing else.
C2_UnfittedRaisesNotFitted ==
    (ev.op \in {"predict", "predict_dist"} /\ _Booster = NoAttr)
        => ev.outcome = "NotFittedError"

\* C3: within a fit call xgb.train is entered only after get_distribution and
\* starting_params have succeeded: a call that ends in UnknownDistributionError
\* or InvalidInputError has not entered it, and a call in flight was made with a
\* registered name and labels that have starting parameters.
C3_TrainOnlyAfterStart ==
    /\ ev.op = "fit" =>
          /\ ev.outcome \in {"UnknownDistributionError", "InvalidInputError"}
                => ("xgb.train" \notin Range(ev.trace) /\ train_call = None)
          /\ \A i \in DOMAIN ev.trace :
                ev.trace[i] = "xgb.train" =>
                    \E j, k \in 1..(i - 1) :
                        /\ j < k
                        /\ ev.trace[j] = "get_distribution"
                        /\ ev.trace[k] = "starting_params"
    /\ train_call # None =>
          /\ get_distribution(Val(train_call).name).ok
          /\ starting_params(get_distribution(Val(train_call).name).value,
                             Val(train_call).y).ok

C3_Witness ==
    /\ ev.op = "fit"
    /\ ev.outcome = "InvalidInputError"
    /\ _Booster # NoAttr

\* C4: every call of xgb.train carries num_class = K of the distribution
\* resolved in that call, base_score = 0.0 and disable_default_eval_metric =
\* true, whatever the constructor was given, and a training base margin of
\* length n*K.
C4_TrainParams ==
    train_call # None =>
        LET c == Val(train_call)
            K == NParams(get_distribution(c.name).value)
        IN  /\ c.params.num_class = Some(K)
            /\ c.params.base_score = Some(0)
            /\ c.params.disable_default_eval_metric = Some(TRUE)
            /\ Len(c.base_margin) = Len(c.y) * K

C4_Witness ==
    /\ train_call # None
    /\ kwargs.base_score = Some(5)
    /\ kwargs.num_class = Some(3)
    /\ Val(train_call).dist = "exponential"
    /\ Len(Val(train_call).y) = MaxLabels

\* C5: _get_base_margins(n) is the flat vector of length n*K whose entry
\* i*K+k is the k-th stored starting parameter, for every sample i and
\* parameter k.
C5_BaseMarginsLayout ==
    ev.op = "_get_base_margins" =>
        LET s == Val(_starting_params)
            K == Len(s)
        IN  /\ Len(ev.result) = ev.n * K
            /\ \A i \in 0..(ev.n - 1), k \in 0..(K - 1) :
                  ev.result[i * K + k + 1] = s[k + 1]

C5_Witness ==
    /\ ev.op = "_get_base_margins"
    /\ ev.n >= 2
    /\ Len(Val(_starting_params)) >= 2
    /\ Val(_starting_params)[1] # Val(_starting_params)[2]

\* C6: with an eval_set of m pairs xgb.train receives m evaluation base
\* margins in the pairs' order, the j-th the broadcast, over the labels of pair
\* j, of the starting parameters of the training labels; without eval_set it
\* receives none.
C6_EvalMargins ==
    train_call # None =>
        LET c == Val(train_call)
            sp == starting_params(c.dist, c.y).value
        IN  IF c.eval_set = None
            THEN c.base_margin_eval_set = None
            ELSE /\ c.base_margin_eval_set # None
                 /\ Len(Val(c.base_margin_eval_set)) = Len(Val(c.eval_set))
                 /\ \A j \in 1..Len(Val(c.eval_set)) :
                       /\ Val(c.base_margin_eval_set)[j]
                              = Broadcast(sp, Len(Val(c.eval_set)[j]))
                       /\ Len(Val(c.base_margin_eval_set)[j])
                              = Len(Val(c.eval_set)[j]) * NParams(c.dist)

C6_Witness ==
    /\ train_call # None
    /\ Val(train_call).eval_set # None
    /\ Len(Val(Val(train_call).eval_set)) = MaxEval
    /\ Len(Val(Val(train_call).eval_set)[1]) # Len(Val(Val(train_call).eval_set)[MaxEval])
    /\ Len(Val(Val(train_call).eval_set)[1]) # Len(Val(train_call).y)
    /\ Val(train_call).starting[1] # 0

\* C7: once a fit has completed, predict_dist passes the engine the broadcast
\* of the starting parameters stored by the most recent completed fit, asks for
\* raw margins and returns the stored distribution's predict of the engine's
\* output; predict returns the first element of that.
C7_PredictUsesCompletedFit ==
    (ev.op \in {"predict", "predict_dist"} /\ _Booster # NoAttr) =>
        /\ ev.passed # None
        /\ Val(ev.passed).base_margin = Broadcast(Val(_Booster).starting, ev.n)
        /\ Val(ev.passed).output_margin
        /\ ev.outcome = "returned"
        /\ LET full == dist_predict(Val(_distribution),
                                    Predictions(Val(ev.passed).base_margin, ev.tree))
           IN  ev.result = Some(IF ev.op = "predict" THEN full[1] ELSE full)

\* the estimator with the other natural_gradient flag
Twin == [Self EXCEPT !.natural_gradient = ~@]

\* C8: the evaluation closure returns the same metric for two estimators that
\* differ only in natural_gradient, given the same predictions and labels.
C8_EvalIgnoresNaturalGradient ==
    ev.op = "feval" => ev.result = feval(Twin, ev.params, ev.y)

\* feval has run on predictions and labels for which the flag does change the
\* objective closure's gradient
C8_Witness ==
    /\ ev.op = "feval"
    /\ ev.result.value # 0
    /\ obj(Self, ev.params, ev.y) # obj(Twin, ev.params, ev.y)

\* C9: two invocations of the same closure with equal predictions and labels
\* return equal results whatever happened on the estimator in between, and an
\* invocation writes no estimator state.
C9_ClosuresPure ==
    [][ /\ (/\ ev.op \in {"obj", "feval"}
            /\ ev'.op = ev.op
            /\ ev'.params = ev.params
            /\ ev'.y = ev.y) => ev'.result = ev.result
        /\ (ev'.op \in {"obj", "feval"} /\ ev' # ev) => UNCHANGED estimator ]_vars

\* C10: between calls, whenever an ensemble is stored, the stored distribution
\* and starting parameters date from the fit call that stored it, and the
\* number of starting parameters, the distribution's K and the ensemble's
\* num_class are equal.
C10_StoredTripleFromOneFit ==
    (train_call = None /\ _Booster # NoAttr) =>
        /\ prov.dist /\ prov.sp
        /\ Len(Val(_starting_params)) = NParams(Val(_distribution))
        /\ NParams(Val(_distribution)) = Val(_Booster).num_class

====
